---- MODULE Spec2Model ----
(***************************************************************************)
(* YOK Akademik scraping pipeline: the Profile Extractor                   *)
(* (src/src/tools/scrape_main_profile.py), the Collaborator Extractor      *)
(* (src/src/tools/scrape_collaborators.py), the session directory they     *)
(* write, the file-watch dispatcher, output readers and subscriber         *)
(* registry of src/src/core/mcp_orchestrator.py, the get_profile and       *)
(* get_collaborators tools of src/mcp_adapter.py, the extractors run from  *)
(* a command line, and the session handling of the search_profile and      *)
(* get_collaborators tools of src/mcp_server_streaming_real.py.            *)
(*                                                                         *)
(* One session is modelled.  A profile URL is modelled by the value of its *)
(* authorId query parameter (a positive number); NoUrl stands for a row    *)
(* whose link has no href (Python None / JSON null / "").                  *)
(***************************************************************************)
EXTENDS Integers, Sequences, FiniteSets, TLC

\* ------------------------------------------------------------------ bounds
RowsPerBigPage == 30   \* rows on each page of the large search result
BigPages == 4          \* pages of the large search result
MaxNodes == 2          \* nodes of a collaboration graph
MaxStarts == 2         \* Collaborator Extractor processes started in a session
MaxQueues == 2         \* subscriber queues created
MaxBusOps == 3         \* subscribe / unsubscribe calls made
MaxToolCalls == 3      \* get_profile / get_collaborators calls made

\* ------------------------------------------------------- program constants
ProfileLimit == 100    \* "100 kisi limiti"
DictKeys == 4          \* keys of the collaborators.json document

NoUrl == 0
BadRow == -1           \* a result row whose parsing raises (caught per row)

VARIABLES
  graph,           \* the collaboration graph of the single profile found
  site,            \* the search result: a sequence of pages, each a sequence of rows
  pc,              \* position of the Profile Extractor process
  stop,            \* which exit of the page loop was taken
  page_num,        \* page_num of the extractor
  profiles,        \* profiles list of the extractor
  profile_urls,    \* profile_urls set of the extractor
  mainFile,        \* main_profile.json on disk
  mainDone,        \* main_done.txt exists
  mainWrites,      \* number of completed writes of main_profile.json
  pendingMain,     \* queued modification events of main_profile.json
  wpc,             \* position of the observer thread inside a handler
  wProfiles,       \* local `profiles` of handle_main_profile_update
  sessProfiles,    \* sessions[sid].profiles
  sessState,       \* sessions[sid].state
  emitted,         \* events published by send_sse_event, in order
  observed,        \* what each run of handle_main_profile_update read
  lastRead,        \* what the polling reader obtained last
  cproc,           \* Collaborator Extractor processes started so far
  collabFile,      \* collaborators.json on disk
  collabDone,      \* collaborators_done.txt exists
  pendingCollab,   \* queued modification events of collaborators.json
  sessCollaborators, \* sessions[sid].collaborators
  collabObserved,  \* what each run of handle_collaborators_update read
  lpc,             \* what the orchestrator's event-loop thread is doing
  sessSelected,    \* sessions[sid].selected_profile
  sessError,       \* sessions[sid].error_message
  toolCalls,       \* get_profile / get_collaborators calls made
  subscribers,     \* self.subscribers: session id -> list of queues
  queue,           \* the asyncio.Queue objects created so far, by number
  busOp,           \* the subscribe / unsubscribe call made last
  wRuns,           \* modification events the dispatcher has handled
  emittedObs,      \* for each published event, the handler run it came from
  mainDoneObserved, \* the dispatcher has seen main_done.txt exist
  mcpSession,      \* streaming server: the id handed out by initialize
  scrapeSession,   \* streaming server: the id the Profile Extractor was run with
  streamCall,      \* streaming server: the get_collaborators call made last
  mainFsynced,     \* os.fsync was called for the last write of main_profile.json
  collabFsynced    \* os.fsync was called for the last write of collaborators.json

extractorVars == <<graph, site, pc, stop, page_num, profiles, profile_urls>>
mainDirVars == <<mainFile, mainDone, mainWrites, pendingMain, mainFsynced>>
watcherVars == <<wpc, wProfiles, sessProfiles, sessState, emitted, observed>>
collabVars == <<cproc, collabFile, collabDone, pendingCollab,
                sessCollaborators, collabObserved, collabFsynced>>
loopVars == <<lpc, sessSelected, sessError, toolCalls>>
busVars == <<subscribers, queue, busOp>>
histVars == <<wRuns, emittedObs, mainDoneObserved>>
streamVars == <<mcpSession, scrapeSession, streamCall>>
vars == <<extractorVars, mainDirVars, watcherVars, lastRead, collabVars,
          loopVars, busVars, histVars, streamVars>>

\* ------------------------------------------------------------ small helpers
Min(a, b) == IF a < b THEN a ELSE b

Range(a, b) == [i \in 1..(b - a + 1) |-> a + i - 1]

IsPrefix(s, t) == Len(s) <= Len(t) /\ \A i \in 1..Len(s) : s[i] = t[i]

\* ----------------------------------------------------------- search results
SiteEmpty == << >>
SiteOne == << <<1>> >>
SiteNoUrl == << <<NoUrl>> >>
SiteDupOne == << <<1, 1>>, <<BadRow, 1>> >>
SiteA == << <<1, 2>>, <<3>> >>
SiteOneTwo == << <<1>>, <<2>> >>
SiteDup == << <<1, 2, 1>>, <<2, BadRow, 3>> >>
SiteBig ==
  [p \in 1..BigPages |-> Range((p - 1) * RowsPerBigPage + 1, p * RowsPerBigPage)]

Sites == {SiteEmpty, SiteOne, SiteNoUrl, SiteDupOne, SiteA, SiteOneTwo, SiteDup, SiteBig}

\* ------------------------------------------------------------ session files
\* kind "empty" is the file between open(path, "w") and the end of json.dump:
\* no content yet, or a document that is not complete.
AbsentFile == [kind |-> "absent", status |-> "", total_profiles |-> 0, profiles |-> << >>]
EmptyFile == [kind |-> "empty", status |-> "", total_profiles |-> 0, profiles |-> << >>]

\* result_data of the extractor, as json.dump writes it
ResultData(st, profs) ==
  [kind |-> "doc", status |-> st, total_profiles |-> Len(profs), profiles |-> profs]

\* open(path, "w"): the file is created or truncated
OpenForWrite(f) == EmptyFile

\* The observer's event queue.  A modification of a watched file queues a
\* modified event for on_modified; the queue skips an event equal to the one
\* queued last, so at most one event per file waits (0 or 1).
PostEvent(p) == {1}

\* ------------------------------------------------------- Profile Extractor
extract_author_id_from_url(url) == IF url = NoUrl THEN NoUrl ELSE url

ProfileRecord(url) == [author_id |-> extract_author_id_from_url(url), profile_url |-> url]

\* the row loop without the in-loop "if len(profiles) >= 100: break"
RECURSIVE ProcessRowsNoCap(_, _)
ProcessRowsNoCap(rows, st) ==
  IF rows = << >> THEN st
  ELSE LET url == Head(rows) IN
    IF url = BadRow THEN ProcessRowsNoCap(Tail(rows), st)
    ELSE IF url \in st.profile_urls THEN ProcessRowsNoCap(Tail(rows), st)
    ELSE ProcessRowsNoCap(Tail(rows),
            [profiles |-> Append(st.profiles, ProfileRecord(url)),
             profile_urls |-> st.profile_urls \cup {url}])

\* the row loop without the "if url in profile_urls: continue" test
RECURSIVE ProcessRowsNoDedup(_, _)
ProcessRowsNoDedup(rows, st) ==
  IF rows = << >> THEN st
  ELSE LET url == Head(rows) IN
    IF url = BadRow THEN ProcessRowsNoDedup(Tail(rows), st)
    ELSE LET st2 == [profiles |-> Append(st.profiles, ProfileRecord(url)),
                     profile_urls |-> st.profile_urls \cup {url}]
         IN IF Len(st2.profiles) >= ProfileLimit THEN st2
            ELSE ProcessRowsNoDedup(Tail(rows), st2)

\* The row loop of one page: st = [profiles, profile_urls]
RECURSIVE ProcessRows(_, _)
ProcessRows(rows, st) ==
  IF rows = << >> THEN st
  ELSE LET url == Head(rows) IN
    IF url = BadRow THEN ProcessRows(Tail(rows), st)
    ELSE IF url \in st.profile_urls THEN ProcessRows(Tail(rows), st)
    ELSE LET st2 == [profiles |-> Append(st.profiles, ProfileRecord(url)),
                     profile_urls |-> st.profile_urls \cup {url}]
         IN IF Len(st2.profiles) >= ProfileLimit THEN st2
            ELSE ProcessRows(Tail(rows), st2)

PageRows(p) == IF p <= Len(site) THEN site[p] ELSE << >>

\* driver.get / search box / "Akademisyenler" tab succeed
StartSearch ==
  /\ pc = "start"
  /\ pc' = "page"
  /\ UNCHANGED <<graph, site, stop, page_num, profiles, profile_urls>>
  /\ UNCHANGED <<mainDirVars, watcherVars, lastRead, streamVars, collabVars, loopVars, busVars, histVars>>

\* ... or fail: sys.exit(1) before anything is written
StartSearchFails ==
  /\ pc = "start"
  /\ pc' = "failed"
  /\ stop' = "exit1"
  /\ UNCHANGED <<graph, site, page_num, profiles, profile_urls>>
  /\ UNCHANGED <<mainDirVars, watcherVars, lastRead, streamVars, collabVars, loopVars, busVars, histVars>>

\* an empty result treated as a fatal error
NoRowsIsFatal ==
  /\ pc = "page"
  /\ pc' = "failed"
  /\ stop' = IF PageRows(page_num) = << >> THEN "norows" ELSE "timeout"
  /\ UNCHANGED <<graph, site, page_num, profiles, profile_urls>>
  /\ UNCHANGED <<mainDirVars, watcherVars, lastRead, streamVars, collabVars, loopVars, busVars, histVars>>

\* top of the page loop: no rows appear within the wait (the page has none,
\* or the wait times out although it has)
NoRows ==
  /\ pc = "page"
  /\ pc' = "finalOpen"
  /\ stop' = IF PageRows(page_num) = << >> THEN "norows" ELSE "timeout"
  /\ UNCHANGED <<graph, site, page_num, profiles, profile_urls>>
  /\ UNCHANGED <<mainDirVars, watcherVars, lastRead, streamVars, collabVars, loopVars, busVars, histVars>>

\* driver.find_elements raises outside any inner try: the run dies
PageCrash ==
  /\ pc = "page"
  /\ pc' = "failed"
  /\ stop' = "crash"
  /\ UNCHANGED <<graph, site, page_num, profiles, profile_urls>>
  /\ UNCHANGED <<mainDirVars, watcherVars, lastRead, streamVars, collabVars, loopVars, busVars, histVars>>

\* the rows of the page are processed; on the cap the loop is left at once
ScrapePage ==
  /\ pc = "page"
  /\ PageRows(page_num) # << >>
  /\ LET st == ProcessRows(PageRows(page_num),
                           [profiles |-> profiles, profile_urls |-> profile_urls])
     IN /\ profiles' = st.profiles
        /\ profile_urls' = st.profile_urls
        /\ IF Len(st.profiles) >= ProfileLimit
             THEN pc' = "finalOpen" /\ stop' = "cap"
             ELSE pc' = "ongoingOpen" /\ stop' = stop
  /\ UNCHANGED <<graph, site, page_num>>
  /\ UNCHANGED <<mainDirVars, watcherVars, lastRead, streamVars, collabVars, loopVars, busVars, histVars>>

\* open(main_profile.json, "w") of the per-page write and of the final write
OpenMainProfile ==
  /\ pc \in {"ongoingOpen", "finalOpen"}
  /\ pc' = IF pc = "ongoingOpen" THEN "ongoingDump" ELSE "finalDump"
  /\ mainFile' = OpenForWrite(mainFile)
  /\ IF mainFile.kind = "absent"
       THEN pendingMain' = pendingMain
       ELSE pendingMain' \in PostEvent(pendingMain)
  /\ UNCHANGED <<mainDone, mainWrites, mainFsynced>>
  /\ UNCHANGED <<graph, site, stop, page_num, profiles, profile_urls>>
  /\ UNCHANGED <<watcherVars, lastRead, streamVars, collabVars, loopVars, busVars, histVars>>

\* json.dump of the per-page snapshot, file closed
DumpOngoing ==
  /\ pc = "ongoingDump"
  /\ pc' = "paginate"
  /\ mainFile' = ResultData("ongoing", profiles)
  /\ mainWrites' = mainWrites + 1
  /\ pendingMain' \in PostEvent(pendingMain)
  /\ mainFsynced' = FALSE
  /\ UNCHANGED mainDone
  /\ UNCHANGED <<graph, site, stop, page_num, profiles, profile_urls>>
  /\ UNCHANGED <<watcherVars, lastRead, streamVars, collabVars, loopVars, busVars, histVars>>

\* pagination: last page, or no next page reachable, or the next page
Paginate ==
  /\ pc = "paginate"
  /\ \/ /\ page_num >= Len(site)
        /\ pc' = "finalOpen" /\ stop' = "last" /\ page_num' = page_num
     \/ /\ page_num < Len(site)
        /\ pc' = "finalOpen" /\ stop' = "navfail" /\ page_num' = page_num
     \/ /\ page_num < Len(site)
        /\ pc' = "page" /\ stop' = stop /\ page_num' = page_num + 1
  /\ UNCHANGED <<graph, site, profiles, profile_urls>>
  /\ UNCHANGED <<mainDirVars, watcherVars, lastRead, streamVars, collabVars, loopVars, busVars, histVars>>

\* json.dump of the final snapshot, flush, fsync, file closed
DumpFinal ==
  /\ pc = "finalDump"
  /\ pc' = "marker"
  /\ mainFile' = ResultData("completed", profiles)
  /\ mainWrites' = mainWrites + 1
  /\ pendingMain' \in PostEvent(pendingMain)
  /\ mainFsynced' = TRUE
  /\ UNCHANGED mainDone
  /\ UNCHANGED <<graph, site, stop, page_num, profiles, profile_urls>>
  /\ UNCHANGED <<watcherVars, lastRead, streamVars, collabVars, loopVars, busVars, histVars>>

\* main_done.txt written without the "if profiles:" test
WriteMainDoneAlways ==
  /\ pc = "marker"
  /\ pc' = "done"
  /\ mainDone' = TRUE
  /\ UNCHANGED <<mainFile, mainWrites, pendingMain, mainFsynced>>
  /\ UNCHANGED <<graph, site, stop, page_num, profiles, profile_urls>>
  /\ UNCHANGED <<watcherVars, lastRead, streamVars, collabVars, loopVars, busVars, histVars>>

\* "if profiles:" main_done.txt is written; the process ends
WriteMainDone ==
  /\ pc = "marker"
  /\ pc' = "done"
  /\ mainDone' = (IF profiles # << >> THEN TRUE ELSE mainDone)
  /\ UNCHANGED <<mainFile, mainWrites, pendingMain, mainFsynced>>
  /\ UNCHANGED <<graph, site, stop, page_num, profiles, profile_urls>>
  /\ UNCHANGED <<watcherVars, lastRead, streamVars, collabVars, loopVars, busVars, histVars>>

Running == pc \notin {"done", "failed"}
OngoingPhase == pc \in {"page", "ongoingOpen", "ongoingDump", "paginate"}

\* ---------------------------------------------------- polling file reader
\* the poll loop of the streaming server: while the extractor runs, if the
\* file exists, json.load it (an exception is caught and logged)
PollMainProfile ==
  /\ Running
  /\ mainFile.kind # "absent"
  /\ lastRead' = [phase |-> IF OngoingPhase THEN "ongoing" ELSE "final",
                  valid |-> mainFile.kind = "doc",
                  status |-> mainFile.status,
                  profiles |-> mainFile.profiles]
  /\ UNCHANGED <<extractorVars, mainDirVars, watcherVars, collabVars, loopVars, busVars, histVars>>
  /\ UNCHANGED streamVars

\* ------------------------------------------------- Collaborator Extractor
DEFAULT_PHOTO_URL == "/default_photo.jpg"

\* what the graph script returns for the i-th data node: odd nodes resolve
\* to a profile link, even nodes do not
GraphNode(i) ==
  IF i % 2 = 1
    THEN [name |-> i, profile_url |-> 10 + i, photo_url |-> "/photo", info |-> ""]
    ELSE [name |-> i, profile_url |-> NoUrl, photo_url |-> "data:image", info |-> "univ"]

Graphs == {[i \in 1..n |-> GraphNode(i)] : n \in 0..MaxNodes}

\* a loop body that keeps the node's photo and detail text when the profile
\* link is missing
CollaboratorRecordKeepsNode(obj) ==
  [author_id |-> obj.profile_url, name |-> obj.name,
   info |-> IF obj.info = "" THEN "name" ELSE obj.info,
   photo_url |-> IF obj.photo_url = "" THEN DEFAULT_PHOTO_URL
                 ELSE IF obj.photo_url = "data:image" THEN obj.photo_url
                 ELSE IF obj.photo_url = "/photo" THEN "BASE/photo"
                 ELSE obj.photo_url,
   profile_url |-> obj.profile_url, status |-> "completed"]

\* the body of the per-node loop up to the append
CollaboratorRecord(obj) ==
  IF obj.profile_url = NoUrl
    THEN [author_id |-> NoUrl, name |-> obj.name, info |-> "Profil bulunamadi",
          photo_url |-> DEFAULT_PHOTO_URL, profile_url |-> NoUrl, status |-> "completed"]
    ELSE [author_id |-> obj.profile_url, name |-> obj.name,
          info |-> IF obj.info = "" THEN "name" ELSE obj.info,
          photo_url |-> IF obj.photo_url = "" THEN DEFAULT_PHOTO_URL
                        ELSE IF obj.photo_url = "data:image" THEN obj.photo_url
                        ELSE IF obj.photo_url = "/photo" THEN "BASE/photo"
                        ELSE obj.photo_url,
          profile_url |-> obj.profile_url, status |-> "completed"]

AbsentCollab == [kind |-> "absent", status |-> "", total_profiles |-> 0,
                 collaborator_profiles |-> << >>]
EmptyCollab == [kind |-> "empty", status |-> "", total_profiles |-> 0,
                collaborator_profiles |-> << >>]

\* collaborators_data as json.dump writes it
CollaboratorsData(st, recs) ==
  [kind |-> "doc", status |-> st, total_profiles |-> Len(recs),
   collaborator_profiles |-> recs]

NoId == 0              \* --profile-id not given (None)

\* a freshly started scrape_collaborators.py process; `by` is the thread that
\* started it and reads its output, `reaped` that its exit has been handled,
\* profile_id / profile_url its command-line arguments, `writes` the number
\* of per-record writes of collaborators.json it has completed; `polling`,
\* last_collaborator_count and `updates` belong to the polling loop of the
\* streaming server call that started it (the collaborators_update events
\* written to the call's response)
NewCollabProc(thread) ==
  [pc |-> "nav", nodes |-> << >>, recs |-> << >>, status |-> "scraping",
   by |-> thread, reaped |-> FALSE,
   profile_id |-> NoId, profile_url |-> NoUrl, writes |-> 0,
   polling |-> FALSE, last_collaborator_count |-> 0, updates |-> << >>]

\* profile page, graph tab and graph script; sys.exit(1) when a wait fails
CollabNavigate(p) ==
  /\ cproc[p].pc = "nav"
  /\ \/ cproc' = [cproc EXCEPT ![p].pc = "failed"]
     \/ cproc' = [cproc EXCEPT ![p].nodes = graph,
                               ![p].pc = IF graph = << >> THEN "done" ELSE "open",
                               ![p].status = IF graph = << >> THEN "completed" ELSE @]
  /\ UNCHANGED <<collabFile, collabDone, pendingCollab, sessCollaborators, collabObserved,
                 collabFsynced>>
  /\ UNCHANGED <<extractorVars, mainDirVars, watcherVars, lastRead, streamVars, loopVars, busVars, histVars>>

\* a loop that collects the records of all nodes before it writes
CollabOpenBatched(p) ==
  /\ cproc[p].pc = "open"
  /\ cproc' = [cproc EXCEPT
                 ![p].recs = [i \in 1..Len(cproc[p].nodes) |->
                                CollaboratorRecord(cproc[p].nodes[i])],
                 ![p].pc = "dump"]
  /\ collabFile' = EmptyCollab
  /\ IF collabFile.kind = "absent"
       THEN pendingCollab' = pendingCollab
       ELSE pendingCollab' \in PostEvent(pendingCollab)
  /\ UNCHANGED <<collabDone, sessCollaborators, collabObserved, collabFsynced>>
  /\ UNCHANGED <<extractorVars, mainDirVars, watcherVars, lastRead, streamVars, loopVars, busVars, histVars>>

\* the next record is appended and collaborators.json is opened for writing
CollabOpen(p) ==
  /\ cproc[p].pc = "open"
  /\ LET obj == cproc[p].nodes[Len(cproc[p].recs) + 1]
     IN cproc' = [cproc EXCEPT ![p].recs = Append(@, CollaboratorRecord(obj)),
                               ![p].pc = "dump"]
  /\ collabFile' = EmptyCollab
  /\ IF collabFile.kind = "absent"
       THEN pendingCollab' = pendingCollab
       ELSE pendingCollab' \in PostEvent(pendingCollab)
  /\ UNCHANGED <<collabDone, sessCollaborators, collabObserved, collabFsynced>>
  /\ UNCHANGED <<extractorVars, mainDirVars, watcherVars, lastRead, streamVars, loopVars, busVars, histVars>>

\* the marker written right after the last per-record write
CollabDumpThenMarker(p) ==
  /\ cproc[p].pc = "dump"
  /\ collabFile' = CollaboratorsData(cproc[p].status, cproc[p].recs)
  /\ pendingCollab' \in PostEvent(pendingCollab)
  /\ IF Len(cproc[p].recs) < Len(cproc[p].nodes)
       THEN cproc' = [cproc EXCEPT ![p].pc = "open", ![p].writes = @ + 1]
       ELSE cproc' = [cproc EXCEPT ![p].pc = "marker", ![p].status = "completed",
                                   ![p].writes = @ + 1]
  /\ collabFsynced' = TRUE
  /\ UNCHANGED <<collabDone, sessCollaborators, collabObserved>>
  /\ UNCHANGED <<extractorVars, mainDirVars, watcherVars, lastRead, streamVars, loopVars, busVars, histVars>>

\* json.dump, flush, fsync, close, sleep; after the last node status="completed"
CollabDump(p) ==
  /\ cproc[p].pc = "dump"
  /\ collabFile' = CollaboratorsData(cproc[p].status, cproc[p].recs)
  /\ pendingCollab' \in PostEvent(pendingCollab)
  /\ IF Len(cproc[p].recs) < Len(cproc[p].nodes)
       THEN cproc' = [cproc EXCEPT ![p].pc = "open", ![p].writes = @ + 1]
       ELSE cproc' = [cproc EXCEPT ![p].pc = "finalOpen", ![p].status = "completed",
                                   ![p].writes = @ + 1]
  /\ collabFsynced' = TRUE
  /\ UNCHANGED <<collabDone, sessCollaborators, collabObserved>>
  /\ UNCHANGED <<extractorVars, mainDirVars, watcherVars, lastRead, streamVars, loopVars, busVars, histVars>>

\* "if collaborator_profiles:" the file is opened for the last write
CollabFinalOpen(p) ==
  /\ cproc[p].pc = "finalOpen"
  /\ cproc' = [cproc EXCEPT ![p].pc = "finalDump"]
  /\ collabFile' = EmptyCollab
  /\ pendingCollab' \in PostEvent(pendingCollab)
  /\ UNCHANGED <<collabDone, sessCollaborators, collabObserved, collabFsynced>>
  /\ UNCHANGED <<extractorVars, mainDirVars, watcherVars, lastRead, streamVars, loopVars, busVars, histVars>>

CollabFinalDump(p) ==
  /\ cproc[p].pc = "finalDump"
  /\ cproc' = [cproc EXCEPT ![p].pc = "marker"]
  /\ collabFile' = CollaboratorsData(cproc[p].status, cproc[p].recs)
  /\ pendingCollab' \in PostEvent(pendingCollab)
  /\ collabFsynced' = TRUE
  /\ UNCHANGED <<collabDone, sessCollaborators, collabObserved>>
  /\ UNCHANGED <<extractorVars, mainDirVars, watcherVars, lastRead, streamVars, loopVars, busVars, histVars>>

\* collaborators_done.txt is written; the process ends
CollabWriteDone(p) ==
  /\ cproc[p].pc = "marker"
  /\ cproc' = [cproc EXCEPT ![p].pc = "done"]
  /\ collabDone' = TRUE
  /\ UNCHANGED <<collabFile, pendingCollab, sessCollaborators, collabObserved, collabFsynced>>
  /\ UNCHANGED <<extractorVars, mainDirVars, watcherVars, lastRead, streamVars, loopVars, busVars, histVars>>

\* --------------------------------------------------------------- event bus
SessionId == 1         \* the session whose extractors are modelled
OtherSession == 2      \* another session of the same orchestrator
Sessions == {SessionId, OtherSession}

ListSet(l) == {l[i] : i \in 1..Len(l)}

\* list.remove(x): the first occurrence is removed
ListRemove(l, x) ==
  IF x \notin ListSet(l) THEN l
  ELSE LET i == CHOOSE k \in 1..Len(l) : l[k] = x /\ \A j \in 1..(k - 1) : l[j] # x
       IN SubSeq(l, 1, i - 1) \o SubSeq(l, i + 1, Len(l))

\* subs.get(session_id, [])
TargetsOf(subs, sid) == IF sid \in DOMAIN subs THEN subs[sid] ELSE << >>

\* self.subscribers.get(session_id, [])
Targets(sid) == TargetsOf(subscribers, sid)

NoBusOp == [op |-> "none", sid |-> 0, q |-> 0, n |-> 0]

\* a subscribe that hands the events published so far to the new queue
subscribe_replays(sid) ==
  /\ Len(queue) < MaxQueues
  /\ busOp.n < MaxBusOps
  /\ queue' = Append(queue, IF sid = SessionId
                              THEN [i \in 1..Len(emitted) |-> i] ELSE << >>)
  /\ subscribers' = [s \in DOMAIN subscribers \cup {sid} |->
                       IF s = sid THEN Append(Targets(sid), Len(queue) + 1)
                       ELSE subscribers[s]]
  /\ busOp' = [op |-> "subscribe", sid |-> sid, q |-> Len(queue) + 1, n |-> busOp.n + 1]
  /\ UNCHANGED <<extractorVars, mainDirVars, watcherVars, lastRead, streamVars, collabVars,
                 loopVars, histVars>>

\* subscribe(session_id): a new queue is created, registered and returned
subscribe(sid) ==
  /\ Len(queue) < MaxQueues
  /\ busOp.n < MaxBusOps
  /\ queue' = Append(queue, << >>)
  /\ subscribers' = [s \in DOMAIN subscribers \cup {sid} |->
                       IF s = sid THEN Append(Targets(sid), Len(queue) + 1)
                       ELSE subscribers[s]]
  /\ busOp' = [op |-> "subscribe", sid |-> sid, q |-> Len(queue) + 1, n |-> busOp.n + 1]
  /\ UNCHANGED <<extractorVars, mainDirVars, watcherVars, lastRead, streamVars, collabVars,
                 loopVars, histVars>>

\* an unsubscribe that leaves the emptied list registered
UnsubscribedKeepsKey(subs, sid, q) ==
  IF sid \notin DOMAIN subs THEN subs
  ELSE [subs EXCEPT ![sid] = ListRemove(subs[sid], q)]

\* what unsubscribe leaves in self.subscribers
Unsubscribed(subs, sid, q) ==
  IF sid \notin DOMAIN subs THEN subs
  ELSE LET lst == ListRemove(subs[sid], q)
       IN IF lst = << >> THEN [s \in DOMAIN subs \ {sid} |-> subs[s]]
          ELSE [subs EXCEPT ![sid] = lst]

\* unsubscribe(session_id, q), for any queue object the caller holds
unsubscribe(sid, q) ==
  /\ busOp.n < MaxBusOps
  /\ subscribers' = Unsubscribed(subscribers, sid, q)
  /\ busOp' = [op |-> "unsubscribe", sid |-> sid, q |-> q, n |-> busOp.n + 1]
  /\ UNCHANGED queue
  /\ UNCHANGED <<extractorVars, mainDirVars, watcherVars, lastRead, streamVars, collabVars,
                 loopVars, histVars>>

\* a publisher that puts the payload on every queue there is
PutTargetsAll(sid) == 1..Len(queue)

\* the queues one published payload is put on
PutTargets(sid) == ListSet(Targets(sid))

\* a publisher that puts each new payload at the head of the queue
send_sse_event_lifo(evs, obs) ==
  /\ emitted' = emitted \o evs
  /\ emittedObs' = emittedObs \o [i \in 1..Len(evs) |-> obs]
  /\ queue' = [q \in 1..Len(queue) |->
                 IF q \in PutTargets(SessionId)
                   THEN [i \in 1..Len(evs) |-> Len(emitted) + i] \o queue[q]
                   ELSE queue[q]]

\* send_sse_event, once for each event of evs: the payload is put_nowait on
\* every queue subscribed to the session.  A payload is identified by its
\* position in `emitted`; obs is the handler run that publishes (0: none).
send_sse_event(evs, obs) ==
  /\ emitted' = emitted \o evs
  /\ emittedObs' = emittedObs \o [i \in 1..Len(evs) |-> obs]
  /\ queue' = [q \in 1..Len(queue) |->
                 IF q \in PutTargets(SessionId)
                   THEN queue[q] \o [i \in 1..Len(evs) |-> Len(emitted) + i]
                   ELSE queue[q]]

\* --------------------------------------------------- file-watch dispatcher
NoItem == [author_id |-> NoUrl, name |-> 0, info |-> "", photo_url |-> "",
           profile_url |-> NoUrl, status |-> ""]

Event(name, n, st, item) == [event |-> name, count |-> n, status |-> st, item |-> item]

\* handle_scraping_error: the state, the message and one error event
handle_scraping_error(error_message, obs) ==
  /\ sessState' = "failed"
  /\ sessError' = error_message
  /\ send_sse_event(<< Event("error", 0, error_message, NoItem) >>, obs)

\* json.loads of the content read, or the empty-result shape
ParseMainProfile(f) ==
  IF f.kind = "doc" THEN f
  ELSE [kind |-> "doc", status |-> "failed", total_profiles |-> 0, profiles |-> << >>]

\* a handler that publishes progress_update only when the count changed
HandleMainProfileReadOnChange ==
  /\ wpc = "idle"
  /\ pendingMain > 0
  /\ pendingMain' = pendingMain - 1
  /\ wRuns' = wRuns + 1
  /\ IF mainFile.kind = "absent"
       THEN UNCHANGED <<wpc, wProfiles, sessProfiles, emitted, observed, queue, emittedObs>>
       ELSE LET data == ParseMainProfile(mainFile)
            IN /\ wProfiles' = data.profiles
               /\ sessProfiles' = data.profiles
               /\ IF Len(data.profiles) = Len(sessProfiles)
                    THEN UNCHANGED <<emitted, queue, emittedObs>>
                    ELSE send_sse_event(
                      << Event("progress_update", Len(data.profiles), data.status, NoItem) >>,
                      wRuns + 1)
               /\ observed' = Append(observed,
                      [w |-> mainWrites, whole |-> mainFile.kind = "doc"])
               /\ wpc' = "mainCheck"
  /\ UNCHANGED <<mainFile, mainDone, mainWrites, mainFsynced, sessState, mainDoneObserved>>
  /\ UNCHANGED <<subscribers, busOp>>
  /\ UNCHANGED <<extractorVars, lastRead, streamVars, collabVars, loopVars>>

\* a handler that fails the session when the content is not a document
HandleMainProfileReadStrict ==
  /\ wpc = "idle"
  /\ pendingMain > 0
  /\ pendingMain' = pendingMain - 1
  /\ wRuns' = wRuns + 1
  /\ IF mainFile.kind = "absent"
       THEN UNCHANGED <<wpc, wProfiles, sessProfiles, emitted, observed, queue,
                        emittedObs, sessState, sessError>>
       ELSE IF mainFile.kind = "empty"
         THEN /\ handle_scraping_error("Invalid main_profile.json", wRuns + 1)
              /\ UNCHANGED <<wpc, wProfiles, sessProfiles, observed>>
         ELSE /\ wProfiles' = mainFile.profiles
              /\ sessProfiles' = mainFile.profiles
              /\ send_sse_event(
                   << Event("progress_update", Len(mainFile.profiles),
                            mainFile.status, NoItem) >>, wRuns + 1)
              /\ observed' = Append(observed, [w |-> mainWrites, whole |-> TRUE])
              /\ wpc' = "mainCheck"
              /\ UNCHANGED <<sessState, sessError>>
  /\ UNCHANGED <<mainFile, mainDone, mainWrites, mainFsynced, mainDoneObserved>>
  /\ UNCHANGED <<subscribers, busOp>>
  /\ UNCHANGED <<extractorVars, lastRead, streamVars, collabVars, lpc, sessSelected, toolCalls>>

\* handle_main_profile_update up to the progress_update event
HandleMainProfileRead ==
  /\ wpc = "idle"
  /\ pendingMain > 0
  /\ pendingMain' = pendingMain - 1
  /\ wRuns' = wRuns + 1
  /\ IF mainFile.kind = "absent"
       THEN UNCHANGED <<wpc, wProfiles, sessProfiles, emitted, observed, queue, emittedObs>>
       ELSE LET data == ParseMainProfile(mainFile)
            IN /\ wProfiles' = data.profiles
               /\ sessProfiles' = data.profiles
               /\ send_sse_event(
                    << Event("progress_update", Len(data.profiles), data.status, NoItem) >>,
                    wRuns + 1)
               /\ observed' = Append(observed,
                      [w |-> mainWrites, whole |-> mainFile.kind = "doc"])
               /\ wpc' = "mainCheck"
  /\ UNCHANGED <<mainFile, mainDone, mainWrites, mainFsynced, sessState, mainDoneObserved>>
  /\ UNCHANGED <<subscribers, busOp>>
  /\ UNCHANGED <<extractorVars, lastRead, streamVars, collabVars, loopVars>>

\* start_collaborator_scraping: the state is set and the subprocess started;
\* a profile_url of None makes Popen raise, which is reported as an error
StartCollaboratorScraping(profile, thread, obs) ==
  IF profile.profile_url = NoUrl
    THEN /\ handle_scraping_error("Failed to start collaborator scraping", obs)
         /\ UNCHANGED cproc
    ELSE /\ sessState' = "scraping_collabs"
         /\ cproc' = Append(cproc, [NewCollabProc(thread) EXCEPT
                                       !.profile_url = profile.profile_url])
         /\ UNCHANGED <<sessError, emitted, queue, emittedObs>>

\* a check that fails the session when the single profile has no profile_url
HandleMainProfileCheckUrlFatal ==
  /\ wpc = "mainCheck"
  /\ wpc' = "idle"
  /\ mainDoneObserved' = (mainDoneObserved \/ mainDone)
  /\ IF mainDone /\ Len(wProfiles) = 1 /\ ~collabDone /\ wProfiles[1].profile_url = NoUrl
       THEN handle_scraping_error("profile_url_missing", wRuns)
       ELSE UNCHANGED <<emitted, queue, emittedObs, sessState, sessError>>
  /\ UNCHANGED <<wProfiles, sessProfiles, observed, wRuns, cproc>>
  /\ UNCHANGED <<collabFile, collabDone, pendingCollab, sessCollaborators, collabObserved,
                 collabFsynced>>
  /\ UNCHANGED <<extractorVars, mainDirVars, lastRead, streamVars, lpc, sessSelected, toolCalls, subscribers, busOp>>

\* the rest of handle_main_profile_update: the auto-start decision.  The
\* started extractor's output is read inside the handler's own event loop, so
\* the observer thread stays in the handler until that process has exited.
HandleMainProfileCheck ==
  /\ wpc = "mainCheck"
  /\ mainDoneObserved' = (mainDoneObserved \/ mainDone)
  /\ IF mainDone /\ Len(wProfiles) = 1
       THEN IF collabDone
              THEN /\ wpc' = "idle"
                   /\ UNCHANGED <<emitted, queue, emittedObs, sessState, sessError, cproc>>
              ELSE IF wProfiles[1].profile_url = NoUrl
                     THEN /\ send_sse_event(
                               << Event("profile_url_missing", 0, "", NoItem) >>, wRuns)
                          /\ wpc' = "idle"
                          /\ UNCHANGED <<sessState, sessError, cproc>>
                     ELSE /\ Len(cproc) < MaxStarts
                          /\ StartCollaboratorScraping(wProfiles[1], "watcher", wRuns)
                          /\ wpc' = "collabWait"
       ELSE /\ wpc' = "idle"
            /\ UNCHANGED <<emitted, queue, emittedObs, sessState, sessError, cproc>>
  /\ UNCHANGED <<wProfiles, sessProfiles, observed, wRuns>>
  /\ UNCHANGED <<collabFile, collabDone, pendingCollab, sessCollaborators, collabObserved,
                 collabFsynced>>
  /\ UNCHANGED <<extractorVars, mainDirVars, lastRead, streamVars, lpc, sessSelected, toolCalls, subscribers, busOp>>

\* Python values held in sessions[sid].collaborators
PyList(items) == [type |-> "list", items |-> items]
PyDict(doc) == [type |-> "dict", items |-> doc.collaborator_profiles]
PyLen(v) == IF v.type = "dict" THEN DictKeys ELSE Len(v.items)

\* json.loads of collaborators.json, or [] for empty / broken content
ParseCollaborators(f) == IF f.kind = "doc" THEN PyDict(f) ELSE PyList(<< >>)

\* the events handle_collaborators_update publishes for one observation;
\* collaborators[-1] on a dict raises KeyError, which the handler swallows
CollaboratorEvents(previous_count, collaborators) ==
  LET current_count == PyLen(collaborators) IN
  IF current_count = 0 /\ previous_count = 0
    THEN << Event("no_collaborators_found", 0, "", NoItem),
            Event("collaborators_completed", 0, "", NoItem) >>
  ELSE IF current_count > previous_count /\ PyLen(collaborators) > 0
    THEN IF collaborators.type = "dict"
           THEN << >>
           ELSE << Event("collaborator_found", current_count, "",
                         collaborators.items[Len(collaborators.items)]) >>
  ELSE << >>

\* collabObserved before collaborators.json has been read at all (afterwards
\* cur is the number of records read, or -1 for a file that was not whole)
NoCollabObservation == [prev |-> -1, cur |-> 0, at |-> 0]

HandleCollaboratorsUpdate ==
  /\ wpc = "idle"
  /\ pendingCollab > 0
  /\ pendingCollab' = pendingCollab - 1
  /\ wRuns' = wRuns + 1
  /\ IF collabFile.kind = "absent"
       THEN UNCHANGED <<sessCollaborators, emitted, queue, emittedObs, collabObserved>>
       ELSE LET collaborators == ParseCollaborators(collabFile)
            IN /\ sessCollaborators' = collaborators
               /\ send_sse_event(
                    CollaboratorEvents(PyLen(sessCollaborators), collaborators),
                    wRuns + 1)
               /\ collabObserved' =
                     [prev |-> collabObserved.cur,
                      cur |-> IF collabFile.kind = "doc"
                                THEN Len(collabFile.collaborator_profiles) ELSE -1,
                      at |-> Len(emitted)]
  /\ UNCHANGED <<cproc, collabFile, collabDone, collabFsynced>>
  /\ UNCHANGED <<wpc, wProfiles, sessProfiles, sessState, observed>>
  /\ UNCHANGED <<extractorVars, mainDirVars, lastRead, streamVars, loopVars>>
  /\ UNCHANGED <<subscribers, busOp, mainDoneObserved>>

\* ------------------------------------------------- subprocess output readers
\* the thread that started an extractor reads its stdout until it has exited
Exited(p) == cproc[p].pc \in {"done", "failed"}
ReturnCode(p) == IF cproc[p].pc = "done" THEN 0 ELSE 1

\* handle_collaborator_completion: json.load of collaborators.json gives the
\* document (a dict); it raises on a file that is being rewritten
handle_collaborator_completion(obs) ==
  /\ sessState' = "completed"
  /\ UNCHANGED sessError
  /\ IF collabFile.kind = "empty"
       THEN UNCHANGED <<emitted, queue, emittedObs>>
       ELSE send_sse_event(
              << Event("process_complete",
                       IF collabFile.kind = "absent" THEN 0
                       ELSE PyLen(PyDict(collabFile)), "", NoItem) >>, obs)

\* a reader that treats every exit as a success
read_collaborator_output_ignores_code(p) ==
  /\ Exited(p)
  /\ ~cproc[p].reaped
  /\ cproc' = [cproc EXCEPT ![p].reaped = TRUE]
  /\ handle_collaborator_completion(IF cproc[p].by = "watcher" THEN wRuns ELSE 0)
  /\ IF cproc[p].by = "watcher"
       THEN wpc' = "idle" /\ lpc' = lpc
       ELSE lpc' = "idle" /\ wpc' = wpc
  /\ UNCHANGED <<collabFile, collabDone, pendingCollab, sessCollaborators, collabObserved,
                 collabFsynced>>
  /\ UNCHANGED <<wProfiles, sessProfiles, observed, sessSelected, toolCalls>>
  /\ UNCHANGED <<extractorVars, mainDirVars, lastRead, streamVars, subscribers, busOp>>
  /\ UNCHANGED <<wRuns, mainDoneObserved>>

\* read_collaborator_output once the process has exited
read_collaborator_output(p) ==
  /\ Exited(p)
  /\ ~cproc[p].reaped
  /\ cproc' = [cproc EXCEPT ![p].reaped = TRUE]
  /\ LET obs == IF cproc[p].by = "watcher" THEN wRuns ELSE 0
     IN IF ReturnCode(p) = 0
          THEN handle_collaborator_completion(obs)
          ELSE handle_scraping_error("Collaborator scraping failed", obs)
  /\ IF cproc[p].by = "watcher"
       THEN wpc' = "idle" /\ lpc' = lpc
       ELSE lpc' = "idle" /\ wpc' = wpc
  /\ UNCHANGED <<collabFile, collabDone, pendingCollab, sessCollaborators, collabObserved,
                 collabFsynced>>
  /\ UNCHANGED <<wProfiles, sessProfiles, observed, sessSelected, toolCalls>>
  /\ UNCHANGED <<extractorVars, mainDirVars, lastRead, streamVars, subscribers, busOp>>
  /\ UNCHANGED <<wRuns, mainDoneObserved>>

\* read_output of start_main_profile_scraping once the process has exited
read_output ==
  /\ lpc = "readMain"
  /\ pc \in {"done", "failed"}
  /\ lpc' = "idle"
  /\ IF pc = "failed"
       THEN handle_scraping_error("Process failed with return code", 0)
       ELSE UNCHANGED <<sessState, sessError, emitted, queue, emittedObs>>
  /\ UNCHANGED <<wpc, wProfiles, sessProfiles, observed, sessSelected, toolCalls>>
  /\ UNCHANGED <<extractorVars, mainDirVars, lastRead, streamVars, collabVars, subscribers, busOp>>
  /\ UNCHANGED <<wRuns, mainDoneObserved>>

\* ------------------------------------------------------ tools of the adapter
\* The tools run on the orchestrator's event loop, which read_output and
\* read_collaborator_output keep busy until their process has exited.
NoProfile == [author_id |-> -1, profile_url |-> -1]

\* profile_id as the client sends it: a JSON number or a JSON string
ProfileIdArgs == {[type |-> "int", v |-> 1], [type |-> "str", v |-> 1]}

\* profile.get('author_id') == profile_id, author_id being a str or None
AuthorIdEquals(author_id, profile_id) ==
  author_id # NoUrl /\ profile_id.type = "str" /\ profile_id.v = author_id

\* the profile _get_collaborators works on, NoProfile when it returns an error
ProfileToScrape ==
  IF sessSelected # NoProfile THEN sessSelected
  ELSE IF Len(sessProfiles) = 1 THEN sessProfiles[1]
  ELSE NoProfile

\* _get_collaborators
GetCollaborators ==
  /\ lpc = "idle"
  /\ toolCalls < MaxToolCalls
  /\ toolCalls' = toolCalls + 1
  /\ ProfileToScrape # NoProfile
  /\ Len(cproc) < MaxStarts
  /\ StartCollaboratorScraping(ProfileToScrape, "loop", 0)
  /\ lpc' = IF ProfileToScrape.profile_url = NoUrl THEN "idle" ELSE "readCollab"
  /\ UNCHANGED <<collabFile, collabDone, pendingCollab, sessCollaborators, collabObserved,
                 collabFsynced>>
  /\ UNCHANGED <<wpc, wProfiles, sessProfiles, observed, sessSelected>>
  /\ UNCHANGED <<extractorVars, mainDirVars, lastRead, streamVars, subscribers, busOp>>
  /\ UNCHANGED <<wRuns, mainDoneObserved>>

\* _get_profile: the first profile of main_profile.json with that author_id
GetProfile(profile_id) ==
  /\ lpc = "idle"
  /\ toolCalls < MaxToolCalls
  /\ toolCalls' = toolCalls + 1
  /\ mainFile.kind = "doc"
  /\ \E i \in 1..Len(mainFile.profiles) :
        /\ AuthorIdEquals(mainFile.profiles[i].author_id, profile_id)
        /\ \A j \in 1..(i - 1) :
              ~AuthorIdEquals(mainFile.profiles[j].author_id, profile_id)
        /\ sessSelected' = mainFile.profiles[i]
  /\ sessState' = "awaiting_selection"
  /\ UNCHANGED <<wpc, wProfiles, sessProfiles, emitted, observed, lpc, sessError>>
  /\ UNCHANGED <<extractorVars, mainDirVars, lastRead, streamVars, collabVars, busVars, histVars>>

\* ----------------------------------------- extractor run from a command line
\* what the graph script can return for one node: with or without a profile
\* link, the photo reference missing, a data URI, site-relative or absolute,
\* the detail text empty or not
PhotoRefs == <<"", "data:image", "/photo", "http://photo">>
InfoTexts == <<"", "univ">>
NodeShapes == 16

NodeShape(k) ==
  [profile_url |-> IF k < 8 THEN NoUrl ELSE 10 + k,
   photo_url |-> PhotoRefs[(k % 4) + 1],
   info |-> InfoTexts[((k \div 4) % 2) + 1]]

\* a graph of n nodes whose shapes run through NodeShapes from shape s on
CliGraph(s, n) ==
  [i \in 1..n |-> LET sh == NodeShape((s + i - 1) % NodeShapes)
                  IN [name |-> i, profile_url |-> sh.profile_url,
                      photo_url |-> sh.photo_url, info |-> sh.info]]

CliGraphs == {CliGraph(s, n) : s \in 0..(NodeShapes - 1), n \in 0..MaxNodes}

\* profile.get('id') == profile_id
IdEquals(profile, profile_id) ==
  "id" \in DOMAIN profile /\ profile["id"] = profile_id

\* a lookup that compares the author_id field instead
get_profile_url_by_author_id(f, profile_id) ==
  IF f.kind # "doc" THEN NoUrl
  ELSE IF \E i \in 1..Len(f.profiles) : f.profiles[i].author_id = profile_id
    THEN LET i == CHOOSE k \in 1..Len(f.profiles) :
                    /\ f.profiles[k].author_id = profile_id
                    /\ \A j \in 1..(k - 1) : f.profiles[j].author_id # profile_id
         IN f.profiles[i].profile_url
    ELSE NoUrl

\* get_profile_url_by_id: the profile_url of the first profile of
\* main_profile.json whose 'id' equals profile_id; None (NoUrl) when there is
\* none or the file cannot be read
get_profile_url_by_id(f, profile_id) ==
  IF f.kind # "doc" THEN NoUrl
  ELSE IF \E i \in 1..Len(f.profiles) : IdEquals(f.profiles[i], profile_id)
    THEN LET i == CHOOSE k \in 1..Len(f.profiles) :
                    /\ IdEquals(f.profiles[k], profile_id)
                    /\ \A j \in 1..(k - 1) : ~IdEquals(f.profiles[j], profile_id)
         IN f.profiles[i].profile_url
    ELSE NoUrl

\* the arguments scrape_collaborators.py is run with
CliArgs == {[profile_id |-> i, profile_url |-> u] : i \in {NoId, 1, 4}, u \in {NoUrl, 1}}

\* python scrape_collaborators.py name session_id [--profile-id N] [--profile-url U],
\* typed into a shell once the command before it has ended
CliStart(args) ==
  /\ Len(cproc) < MaxStarts
  /\ pc \in {"done", "failed"}
  /\ \A q \in 1..Len(cproc) : cproc[q].pc \in {"done", "failed"}
  /\ cproc' = Append(cproc, [NewCollabProc("cli") EXCEPT
                               !.pc = "args",
                               !.profile_id = args.profile_id,
                               !.profile_url = args.profile_url])
  /\ UNCHANGED <<collabFile, collabDone, pendingCollab, sessCollaborators, collabObserved,
                 collabFsynced>>
  /\ UNCHANGED <<extractorVars, mainDirVars, watcherVars, lastRead, streamVars, loopVars, busVars, histVars>>

\* "if profile_id and not profile_url": the id is resolved or sys.exit(1)
CollabResolve(p) ==
  /\ cproc[p].pc = "args"
  /\ IF cproc[p].profile_id # NoId /\ cproc[p].profile_url = NoUrl
       THEN LET url == get_profile_url_by_id(mainFile, cproc[p].profile_id)
            IN IF url # NoUrl
                 THEN cproc' = [cproc EXCEPT ![p].pc = "nav", ![p].profile_url = url]
                 ELSE cproc' = [cproc EXCEPT ![p].pc = "failed"]
       ELSE cproc' = [cproc EXCEPT ![p].pc = "nav"]
  /\ UNCHANGED <<collabFile, collabDone, pendingCollab, sessCollaborators, collabObserved,
                 collabFsynced>>
  /\ UNCHANGED <<extractorVars, mainDirVars, watcherVars, lastRead, streamVars, loopVars, busVars, histVars>>

\* ---------------------------------------------------------- streaming server
\* mcp_server_streaming_real.py runs the same two extractors.  A session id is
\* "session_<local date and time>_<milliseconds>"; it is modelled by the
\* instant it was generated at.
MaxTimes == 2          \* instants at which a session id can be generated
Times == 1..MaxTimes

NoSession == 0

NoStreamCall == [tool |-> "none", profile_index |-> 0, outcome |-> "none"]

\* handle_initialize: the MCP session id is generated and registered
handle_initialize(t) ==
  /\ mcpSession = NoSession
  /\ mcpSession' = t
  /\ UNCHANGED <<scrapeSession, streamCall>>
  /\ UNCHANGED <<extractorVars, mainDirVars, watcherVars, lastRead, collabVars,
                 loopVars, busVars, histVars>>

\* search_profile (stream_real_profile_search, handle_streaming_tools_call):
\* a new scraping session id is generated and scrape_main_profile.py is
\* started with it
search_profile(t) ==
  /\ mcpSession # NoSession
  /\ scrapeSession = NoSession
  /\ t >= mcpSession
  /\ scrapeSession' = t
  /\ UNCHANGED <<mcpSession, streamCall>>
  /\ UNCHANGED <<extractorVars, mainDirVars, watcherVars, lastRead, collabVars,
                 loopVars, busVars, histVars>>

\* public/collaborator-sessions/<sid>/main_profile.json
SessionMainProfile(sid) == IF sid = scrapeSession THEN mainFile ELSE AbsentFile

\* profile_index as the caller may send it
ProfileIndexArgs == 0..2

\* the extractor process the streaming server starts
StreamCollabProc(profile) ==
  [NewCollabProc("stream") EXCEPT !.profile_url = profile.profile_url]

\* what a get_collaborators call does once the profile is chosen
StreamStart(tool, profile_index, profs, array_index) ==
  IF profs[array_index + 1].profile_url = NoUrl
    THEN /\ streamCall' = [tool |-> tool, profile_index |-> profile_index,
                            outcome |-> "error"]
         /\ UNCHANGED cproc
    ELSE /\ streamCall' = [tool |-> tool, profile_index |-> profile_index,
                            outcome |-> "started"]
         /\ cproc' = Append(cproc, [StreamCollabProc(profs[array_index + 1])
                                       EXCEPT !.polling = (tool = "stream")])

\* stream_real_collaborator_search: profile_index - 1, or the first profile
\* when that is out of range
stream_real_collaborator_search(profile_index) ==
  /\ mcpSession # NoSession
  /\ toolCalls < MaxToolCalls
  /\ toolCalls' = toolCalls + 1
  /\ Len(cproc) < MaxStarts
  /\ LET f == SessionMainProfile(mcpSession)
     IN IF f.kind # "doc" \/ f.profiles = << >>
          THEN /\ streamCall' = [tool |-> "stream", profile_index |-> profile_index,
                                  outcome |-> "error"]
               /\ UNCHANGED cproc
          ELSE LET i == profile_index - 1
                   array_index == IF i < 0 \/ i >= Len(f.profiles) THEN 0 ELSE i
               IN StreamStart("stream", profile_index, f.profiles, array_index)
  /\ UNCHANGED <<mcpSession, scrapeSession>>
  /\ UNCHANGED <<collabFile, collabDone, pendingCollab, sessCollaborators, collabObserved,
                 collabFsynced>>
  /\ UNCHANGED <<lpc, sessSelected, sessError>>
  /\ UNCHANGED <<extractorVars, mainDirVars, watcherVars, lastRead, busVars, histVars>>

chunk_size == 10

\* the collaborators_update events for the records found since the last
\* poll, at most chunk_size records each
UpdateChunks(new_collaborators, last_count, total_collaborators) ==
  [k \in 1..((Len(new_collaborators) + chunk_size - 1) \div chunk_size) |->
     LET i == (k - 1) * chunk_size
         chunk == SubSeq(new_collaborators, i + 1,
                         Min(i + chunk_size, Len(new_collaborators)))
     IN [collaborators_found |-> total_collaborators,
         collaborators |-> chunk,
         chunk_start |-> last_count + i + 1,
         chunk_end |-> last_count + i + Len(chunk)]]

\* one round of the polling loop of stream_real_collaborator_search that
\* finds more records in collaborators.json than it has sent: the records
\* after the first last_collaborator_count are sent; a file that is absent
\* or cannot be parsed, or that holds no more records, changes nothing
StreamPoll(p) ==
  /\ cproc[p].polling
  /\ ~Exited(p)
  /\ collabFile.kind = "doc"
  /\ LET collaborators == collabFile.collaborator_profiles
         total_collaborators == Len(collaborators)
         last == cproc[p].last_collaborator_count
     IN /\ total_collaborators > last
        /\ cproc' = [cproc EXCEPT
              ![p].updates = cproc[p].updates \o
                 UpdateChunks(SubSeq(collaborators, last + 1, total_collaborators),
                              last, total_collaborators),
              ![p].last_collaborator_count = total_collaborators]
  /\ UNCHANGED <<collabFile, collabDone, pendingCollab, sessCollaborators, collabObserved,
                 collabFsynced>>
  /\ UNCHANGED <<extractorVars, mainDirVars, watcherVars, lastRead, streamVars,
                 loopVars, busVars, histVars>>

\* the polling loop sees process.returncode set and is left
StreamPollEnd(p) ==
  /\ cproc[p].polling
  /\ Exited(p)
  /\ cproc' = [cproc EXCEPT ![p].polling = FALSE]
  /\ UNCHANGED <<collabFile, collabDone, pendingCollab, sessCollaborators, collabObserved,
                 collabFsynced>>
  /\ UNCHANGED <<extractorVars, mainDirVars, watcherVars, lastRead, streamVars,
                 loopVars, busVars, histVars>>

\* run_collaborator_scraping_sync: profile_index - 1, an exception when that
\* is out of range
run_collaborator_scraping_sync(profile_index) ==
  /\ mcpSession # NoSession
  /\ toolCalls < MaxToolCalls
  /\ toolCalls' = toolCalls + 1
  /\ Len(cproc) < MaxStarts
  /\ LET f == SessionMainProfile(mcpSession)
         array_index == profile_index - 1
     IN IF \/ f.kind # "doc"
           \/ f.profiles = << >>
           \/ array_index < 0
           \/ array_index >= Len(f.profiles)
          THEN /\ streamCall' = [tool |-> "sync", profile_index |-> profile_index,
                                  outcome |-> "error"]
               /\ UNCHANGED cproc
          ELSE StreamStart("sync", profile_index, f.profiles, array_index)
  /\ UNCHANGED <<mcpSession, scrapeSession>>
  /\ UNCHANGED <<collabFile, collabDone, pendingCollab, sessCollaborators, collabObserved,
                 collabFsynced>>
  /\ UNCHANGED <<lpc, sessSelected, sessError>>
  /\ UNCHANGED <<extractorVars, mainDirVars, watcherVars, lastRead, busVars, histVars>>

\* ------------------------------------------------------------ specification
SearchInputs ==
  {[site |-> s, graph |-> g] : s \in {SiteOne, SiteDupOne}, g \in Graphs}
  \cup {[site |-> s, graph |-> << >>] : s \in Sites \ {SiteOne, SiteDupOne}}

InitCommon ==
  /\ pc = "start"
  /\ stop = "none"
  /\ page_num = 1
  /\ profiles = << >>
  /\ profile_urls = {}
  /\ mainFile = AbsentFile
  /\ mainDone = FALSE
  /\ mainWrites = 0
  /\ pendingMain = 0
  /\ wpc = "idle"
  /\ wProfiles = << >>
  /\ sessProfiles = << >>
  /\ emitted = << >>
  /\ observed = << >>
  /\ lastRead = [phase |-> "none", valid |-> TRUE, status |-> "", profiles |-> << >>]
  /\ cproc = << >>
  /\ collabFile = AbsentCollab
  /\ collabDone = FALSE
  /\ pendingCollab = 0
  /\ sessCollaborators = PyList(<< >>)
  /\ collabObserved = NoCollabObservation
  /\ toolCalls = 0
  /\ sessSelected = NoProfile
  /\ sessError = ""
  /\ subscribers = << >>
  /\ queue = << >>
  /\ busOp = NoBusOp
  /\ wRuns = 0
  /\ emittedObs = << >>
  /\ mainDoneObserved = FALSE
  /\ mcpSession = NoSession
  /\ scrapeSession = NoSession
  /\ streamCall = NoStreamCall
  /\ mainFsynced = TRUE
  /\ collabFsynced = TRUE

\* the state when process_user_request has returned: the session exists, the
\* Profile Extractor is started and read_output is scheduled
InitRest ==
  /\ InitCommon
  /\ sessState = "scraping_main"
  /\ lpc = "readMain"

Init ==
  /\ \E inp \in SearchInputs : site = inp.site /\ graph = inp.graph
  /\ InitRest

\* the extractors, the dispatcher and the output readers
Pipeline ==
  \/ StartSearch
  \/ StartSearchFails
  \/ NoRows
  \/ PageCrash
  \/ ScrapePage
  \/ OpenMainProfile
  \/ DumpOngoing
  \/ Paginate
  \/ DumpFinal
  \/ WriteMainDone
  \/ HandleMainProfileRead
  \/ HandleMainProfileCheck
  \/ HandleCollaboratorsUpdate
  \/ read_output
  \/ \E p \in 1..Len(cproc) :
        \/ CollabNavigate(p)
        \/ CollabOpen(p)
        \/ CollabDump(p)
        \/ CollabFinalOpen(p)
        \/ CollabFinalDump(p)
        \/ CollabWriteDone(p)
        \/ read_collaborator_output(p)

\* a search with a polling reader and no further tool call
Next ==
  \/ Pipeline
  \/ PollMainProfile

Spec == Init /\ [][Next]_vars

\* Scheduling: each extractor is an operating-system process that keeps
\* running until it exits; the observer thread handles every event posted to
\* it; a reader runs on its thread until the pipe of its process is closed.
ExtractorStep ==
  \/ StartSearch
  \/ StartSearchFails
  \/ NoRows
  \/ PageCrash
  \/ ScrapePage
  \/ OpenMainProfile
  \/ DumpOngoing
  \/ Paginate
  \/ DumpFinal
  \/ WriteMainDone

ObserverStep ==
  \/ HandleMainProfileRead
  \/ HandleMainProfileCheck
  \/ HandleCollaboratorsUpdate

CollabStep(p) ==
  /\ p \in 1..Len(cproc)
  /\ \/ CollabNavigate(p)
     \/ CollabOpen(p)
     \/ CollabDump(p)
     \/ CollabFinalOpen(p)
     \/ CollabFinalDump(p)
     \/ CollabWriteDone(p)

CollabReaderStep(p) == p \in 1..Len(cproc) /\ read_collaborator_output(p)

Fairness ==
  /\ WF_vars(ExtractorStep)
  /\ WF_vars(ObserverStep)
  /\ WF_vars(read_output)
  /\ \A p \in 1..MaxStarts : WF_vars(CollabStep(p)) /\ WF_vars(CollabReaderStep(p))

\* the search of Spec with every process and thread scheduled
SpecLive == Init /\ [][Next]_vars /\ Fairness

\* a search followed by get_profile / get_collaborators calls
ToolInputs ==
  {[site |-> SiteOne, graph |-> g] : g \in Graphs}
  \cup {[site |-> s, graph |-> << >>] : s \in {SiteNoUrl, SiteDupOne, SiteA}}

InitTools ==
  /\ \E inp \in ToolInputs : site = inp.site /\ graph = inp.graph
  /\ InitRest

NextTools ==
  \/ Pipeline
  \/ GetCollaborators
  \/ \E profile_id \in ProfileIdArgs : GetProfile(profile_id)

SpecTools == InitTools /\ [][NextTools]_vars

\* the searches and tool calls of SpecTools with every process and thread
\* scheduled (the tool calls themselves are the caller's choice)
SpecToolsLive == InitTools /\ [][NextTools]_vars /\ Fairness

\* a search with subscribers coming and going
BusInputs ==
  {[site |-> SiteOne, graph |-> g] : g \in Graphs}
  \cup {[site |-> SiteA, graph |-> << >>]}

InitBus ==
  /\ \E inp \in BusInputs : site = inp.site /\ graph = inp.graph
  /\ InitRest

NextBus ==
  \/ Pipeline
  \/ \E sid \in Sessions : subscribe(sid)
  \/ \E sid \in Sessions : \E q \in 1..Len(queue) : unsubscribe(sid, q)

SpecBus == InitBus /\ [][NextBus]_vars

\* process_user_request: the session is created (its id holds a fresh uuid4
\* part), session_started is published, the Profile Extractor is started and
\* read_output is scheduled; nothing in the call suspends
process_user_request ==
  /\ sessState = "none"
  /\ sessState' = "scraping_main"
  /\ lpc' = "readMain"
  /\ send_sse_event(<< Event("session_started", 0, "", NoItem) >>, 0)
  /\ UNCHANGED <<wpc, wProfiles, sessProfiles, observed>>
  /\ UNCHANGED <<sessSelected, sessError, toolCalls>>
  /\ UNCHANGED <<subscribers, busOp, wRuns, mainDoneObserved>>
  /\ UNCHANGED <<extractorVars, mainDirVars, lastRead, streamVars, collabVars>>

\* the session's id is known to a caller once process_user_request has
\* returned it
SessionKnown(sid) == sid = SessionId => sessState # "none"

\* a request and subscribers coming and going, from before the session exists
InitRequest ==
  /\ \E inp \in BusInputs : site = inp.site /\ graph = inp.graph
  /\ InitCommon
  /\ sessState = "none"
  /\ lpc = "idle"

NextRequest ==
  \/ process_user_request
  \/ sessState # "none" /\ Pipeline
  \/ \E sid \in Sessions : SessionKnown(sid) /\ subscribe(sid)
  \/ \E sid \in Sessions : \E q \in 1..Len(queue) : unsubscribe(sid, q)

SpecRequest == InitRequest /\ [][NextRequest]_vars

\* both extractors run from the command line on one session directory
CliInputs == {[site |-> SiteA, graph |-> g] : g \in CliGraphs}

InitCli ==
  /\ \E inp \in CliInputs : site = inp.site /\ graph = inp.graph
  /\ InitRest

NextCli ==
  \/ StartSearch
  \/ StartSearchFails
  \/ NoRows
  \/ PageCrash
  \/ ScrapePage
  \/ OpenMainProfile
  \/ DumpOngoing
  \/ Paginate
  \/ DumpFinal
  \/ WriteMainDone
  \/ \E args \in CliArgs : CliStart(args)
  \/ \E p \in 1..Len(cproc) :
        \/ CollabResolve(p)
        \/ CollabNavigate(p)
        \/ CollabOpen(p)
        \/ CollabDump(p)
        \/ CollabFinalOpen(p)
        \/ CollabFinalDump(p)
        \/ CollabWriteDone(p)

SpecCli == InitCli /\ [][NextCli]_vars

\* the streaming server: initialize, search_profile, then get_collaborators
StreamInputs ==
  {[site |-> SiteOne, graph |-> g] : g \in Graphs}
  \cup {[site |-> SiteA, graph |-> << >>]}

InitStream ==
  /\ \E inp \in StreamInputs : site = inp.site /\ graph = inp.graph
  /\ InitRest

NextStream ==
  \/ \E t \in Times : handle_initialize(t)
  \/ \E t \in Times : search_profile(t)
  \/ scrapeSession # NoSession /\ StartSearch
  \/ scrapeSession # NoSession /\ StartSearchFails
  \/ NoRows
  \/ PageCrash
  \/ ScrapePage
  \/ OpenMainProfile
  \/ DumpOngoing
  \/ Paginate
  \/ DumpFinal
  \/ WriteMainDone
  \/ PollMainProfile
  \/ \E profile_index \in ProfileIndexArgs :
        \/ stream_real_collaborator_search(profile_index)
        \/ run_collaborator_scraping_sync(profile_index)
  \/ \E p \in 1..Len(cproc) :
        \/ CollabNavigate(p)
        \/ CollabOpen(p)
        \/ CollabDump(p)
        \/ CollabFinalOpen(p)
        \/ CollabFinalDump(p)
        \/ CollabWriteDone(p)
        \/ StreamPoll(p)
        \/ StreamPollEnd(p)

SpecStream == InitStream /\ [][NextStream]_vars

TypeOK ==
  /\ pc \in {"start", "page", "ongoingOpen", "ongoingDump", "paginate",
             "finalOpen", "finalDump", "marker", "done", "failed"}
  /\ pendingMain \in 0..1
  /\ pendingCollab \in 0..1
  /\ wpc \in {"idle", "mainCheck", "collabWait"}
  /\ lpc \in {"readMain", "idle", "readCollab"}
  /\ sessState \in {"none", "scraping_main", "awaiting_selection", "scraping_collabs",
                    "completed", "failed"}
  /\ Len(emittedObs) = Len(emitted)
  /\ mcpSession \in {NoSession} \cup Times
  /\ scrapeSession \in {NoSession} \cup Times
  /\ streamCall.outcome \in {"none", "error", "started"}

\* ------------------------------------------------------------------ claims
Distinct(s) == \A i, j \in 1..Len(s) : i # j => s[i] # s[j]

Urls(profs) == [i \in 1..Len(profs) |-> profs[i].profile_url]

\* C1: every document written to main_profile.json ("ongoing" or
\* "completed") has total_profiles equal to the length of its profiles list,
\* and that list holds at most 100 records.
C1_TotalAndCap ==
  mainFile.kind = "doc" =>
    /\ mainFile.total_profiles = Len(mainFile.profiles)
    /\ Len(mainFile.profiles) <= ProfileLimit

\* the cap case: a search with more than 100 rows has been written out
C1_Witness ==
  /\ stop = "cap"
  /\ mainFile.kind = "doc"
  /\ mainFile.status = "completed"
  /\ Len(mainFile.profiles) = ProfileLimit

\* C2: a row whose profile_url is already recorded is skipped, so the
\* profile_url values of every written snapshot are pairwise distinct; the
\* extractor's list only grows by appending, every snapshot written is that
\* list as it is at the write, and so each snapshot on disk is a prefix of it.
C2_DedupAppendOnly ==
  [][ /\ IsPrefix(profiles, profiles')
      /\ mainFile'.kind = "doc" =>
           /\ Distinct(Urls(mainFile'.profiles))
           /\ IsPrefix(mainFile'.profiles, profiles')
           /\ mainFile' # mainFile => mainFile'.profiles = profiles' ]_vars

\* repeated rows on the same page and on a later page were met and skipped
C2_Witness ==
  /\ site = SiteDup
  /\ stop = "last"
  /\ mainFile.kind = "doc"
  /\ mainFile.status = "completed"
  /\ Urls(mainFile.profiles) = <<1, 2, 3>>

RunEnded == pc \in {"done", "failed"}

CompletedNonEmpty ==
  mainFile.kind = "doc" /\ mainFile.status = "completed" /\ mainFile.total_profiles > 0

\* C3: when the run has ended, main_done.txt exists if and only if
\* main_profile.json is a "completed" document with total_profiles > 0.
C3_MarkerIff == RunEnded => (mainDone <=> CompletedNonEmpty)

\* a run that ended with results and its marker
C3_Witness == pc = "done" /\ mainDone /\ CompletedNonEmpty

\* the first page showed no row
ZeroRows == stop \in {"norows", "timeout"} /\ page_num = 1

\* C9: a search yielding no rows ends normally, leaves a "completed"
\* document with an empty profiles list, and never creates main_done.txt.
C9_ZeroResults ==
  ZeroRows =>
    /\ pc # "failed"
    /\ ~mainDone
    /\ pc = "done" => mainFile = ResultData("completed", << >>)

\* the zero-row run has ended
C9_Witness == ZeroRows /\ pc = "done" /\ site = SiteEmpty

\* C10: a marker exists only after the final "completed" write of its
\* snapshot and only with a non-zero record count: main_done.txt for the
\* profile run, collaborators_done.txt for a single collaborator run.
C10_MarkerAfterFinalWrite ==
  /\ mainDone => CompletedNonEmpty
  /\ (Len(cproc) = 1 /\ collabDone) =>
        /\ collabFile.kind = "doc"
        /\ collabFile.status = "completed"
        /\ collabFile.total_profiles > 0
        /\ collabFile.collaborator_profiles = cproc[1].recs

\* both markers written, one collaborator run
C10_Witness ==
  /\ mainDone
  /\ Len(cproc) = 1
  /\ collabDone
  /\ cproc[1].pc = "done"

\* C4: whatever a reader obtains from main_profile.json while the run is in
\* its "ongoing" phase is a valid JSON document, and its profiles list is a
\* strict prefix of the list of the final "completed" document.
C4_ReaderSeesStrictPrefix ==
  lastRead.phase = "ongoing" =>
    /\ lastRead.valid
    /\ (pc = "done" /\ mainFile.kind = "doc") =>
          /\ IsPrefix(lastRead.profiles, mainFile.profiles)
          /\ Len(lastRead.profiles) < Len(mainFile.profiles)

\* the search ended with exactly one profile that has a profile_url, the
\* final snapshot and main_done.txt are written
SingleProfileCompleted ==
  /\ mainDone
  /\ mainFile.kind = "doc"
  /\ mainFile.status = "completed"
  /\ Len(mainFile.profiles) = 1
  /\ mainFile.profiles[1].profile_url # NoUrl

\* C5: with main_done.txt present and a completed snapshot holding one
\* profile with a profile_url, the dispatcher starts the Collaborator
\* Extractor no more than once, whatever modification events it handles.
C5_AutoStartOnce == SingleProfileCompleted => Len(cproc) <= 1

\* the events of the collaborators_update run that was handled last
LastCollabEvents ==
  {i \in (collabObserved.at + 1)..Len(emitted) :
      /\ emitted[i].event = "collaborator_found"
      /\ emitted[i].count = collabObserved.cur
      /\ emitted[i].item = CollaboratorRecord(graph[collabObserved.cur])}

\* C6: when the dispatcher reads a collaborators.json with N+1 records after
\* having read one with N (N >= 0; N = 0 also before any read), it publishes
\* exactly one collaborator_found event, carrying the (N+1)-th record and
\* total_count N+1.
C6_OneEventPerNewRecord ==
  (collabObserved.prev >= 0 /\ collabObserved.cur = collabObserved.prev + 1)
    => Cardinality(LastCollabEvents) = 1

\* nothing is left to happen for the profile phase
ProfilePhaseQuiet == pc = "done" /\ pendingMain = 0 /\ wpc = "idle"

\* C7: after a search that ended with one profile with a profile_url and
\* main_done.txt written, the dispatcher has started the Collaborator
\* Extractor by the time all modification events are handled.
C7_AutoStartHappens ==
  (SingleProfileCompleted /\ ProfilePhaseQuiet) => Len(cproc) >= 1

IsProgressUpdate(e) == e.event = "progress_update"
ProgressUpdates == SelectSeq(emitted, IsProgressUpdate)
ProgressCounts == [i \in 1..Len(ProgressUpdates) |-> ProgressUpdates[i].count]
ProgressStatuses == [i \in 1..Len(ProgressUpdates) |-> ProgressUpdates[i].status]

\* scenario A: 2 rows then 1 row, the last page reached, and the handler ran
\* once for each of the writes of main_profile.json, reading it complete
ScenarioAObserved ==
  /\ site = SiteA
  /\ stop = "last"
  /\ ProfilePhaseQuiet
  /\ observed = [i \in 1..mainWrites |-> [w |-> i, whole |-> TRUE]]

ScenarioAFinal ==
  /\ mainFile = ResultData("completed", [i \in 1..3 |-> ProfileRecord(i)])
  /\ mainDone

\* C8 as stated: in scenario A the dispatcher publishes exactly two
\* progress_update events, with counts 2 then 3; the final snapshot has
\* total_profiles = 3, status "completed", and main_done.txt is present.
C8_TwoProgressUpdates ==
  ScenarioAObserved => (ProgressCounts = <<2, 3>> /\ ScenarioAFinal)

\* C8 amended: the run writes main_profile.json three times (after page 1,
\* after page 2, and the final write), so the dispatcher publishes three
\* progress_update events, with counts 2, 3, 3 and statuses "ongoing",
\* "ongoing", "completed"; the final snapshot and the marker are as stated.
C8_ThreeProgressUpdates ==
  ScenarioAObserved =>
    /\ mainWrites = 3
    /\ ProgressCounts = <<2, 3, 3>>
    /\ ProgressStatuses = <<"ongoing", "ongoing", "completed">>
    /\ ScenarioAFinal

C8_Witness == ScenarioAObserved /\ Len(emitted) = 3

\* ---------------------------------------------------------- claims C11..C20
\* C11: whenever collaborators_done.txt exists, collaborators.json is a
\* document with status "completed" holding at least one collaborator record,
\* also when the Collaborator Extractor is started again for the session.
C11_DoneImpliesCompleted ==
  collabDone =>
    /\ collabFile.kind = "doc"
    /\ collabFile.status = "completed"
    /\ Len(collabFile.collaborator_profiles) >= 1

CollabPhaseEvents ==
  {"collaborator_found", "no_collaborators_found", "collaborators_completed"}

\* C15: no collaborator-phase event is published and no Collaborator
\* Extractor is started before the dispatcher has seen main_done.txt exist.
C15_CollabAfterMainDone ==
  (cproc # << >> \/ \E i \in 1..Len(emitted) : emitted[i].event \in CollabPhaseEvents)
    => mainDoneObserved

\* C16: once the session's state is FAILED no later operation changes it.
C16_FailedAbsorbing == [][sessState = "failed" => sessState' = "failed"]_vars

ExitMessages == {"Process failed with return code", "Collaborator scraping failed"}

ExitError(msg) == Event("error", 0, msg, NoItem)

\* the events a step publishes
NewEvents == SubSeq(emitted', Len(emitted) + 1, Len(emitted'))

NoNewError == \A i \in 1..Len(NewEvents) : NewEvents[i].event # "error"

\* the step handles the exit of collaborator process p
ReapsCollab(p) == p <= Len(cproc') /\ ~cproc[p].reaped /\ cproc'[p].reaped

\* the step handles the exit of the Profile Extractor
ReapsMain == lpc = "readMain" /\ lpc' # "readMain"

\* C17: when the exit of an extractor subprocess is handled, a non-zero exit
\* code publishes exactly one error event carrying the failure message and
\* sets the state to FAILED, and exit code 0 publishes no error event; no
\* other step publishes such an error event.
C17_ExitCodeToError ==
  [][ /\ \A p \in 1..Len(cproc) :
            ReapsCollab(p) =>
              IF cproc[p].pc = "failed"
                THEN /\ NewEvents = << ExitError("Collaborator scraping failed") >>
                     /\ sessState' = "failed"
                ELSE NoNewError
      /\ ReapsMain =>
            IF pc = "failed"
              THEN /\ NewEvents = << ExitError("Process failed with return code") >>
                   /\ sessState' = "failed"
              ELSE NoNewError
      /\ (\E i \in 1..Len(NewEvents) :
              NewEvents[i].event = "error" /\ NewEvents[i].status \in ExitMessages)
            => (ReapsMain \/ \E p \in 1..Len(cproc) : ReapsCollab(p)) ]_vars

\* both exits have been handled: a failed collaborator run and its error
\* event, after a Profile Extractor run that exited with code 0
C17_Witness ==
  /\ pc = "done"
  /\ lpc # "readMain"
  /\ sessState = "failed"
  /\ \E p \in 1..Len(cproc) : cproc[p].reaped /\ cproc[p].pc = "failed"
  /\ emitted[Len(emitted)] = ExitError("Collaborator scraping failed")
\* the step is a run of handle_main_profile_update on an existing file
MainHandlerRuns == pendingMain' < pendingMain /\ mainFile.kind # "absent"

\* the step is a run of handle_collaborators_update on an existing file
CollabHandlerRuns == pendingCollab' < pendingCollab /\ collabFile.kind # "absent"

\* C18: when a handler reads a snapshot that is empty or not valid JSON it
\* goes on with the empty-result shape (no profiles / no collaborators),
\* raises nothing, publishes no error event and does not change the state.
C18_BadSnapshotRecovered ==
  [][ /\ (MainHandlerRuns /\ mainFile.kind = "empty") =>
            /\ sessProfiles' = << >>
            /\ NewEvents = << Event("progress_update", 0, "failed", NoItem) >>
            /\ wpc' = "mainCheck"
            /\ sessState' = sessState
      /\ (CollabHandlerRuns /\ collabFile.kind = "empty") =>
            /\ sessCollaborators' = PyList(<< >>)
            /\ NoNewError
            /\ wpc' = "idle"
            /\ sessState' = sessState ]_vars

\* both handlers have read a file that was being rewritten
C18_Witness ==
  /\ \E i \in 1..Len(observed) : ~observed[i].whole
  /\ collabObserved.cur = -1
  /\ sessCollaborators = PyList(<< >>)

\* C19: on an observation of collaborators.json where the previous and the
\* new count are both zero, the dispatcher publishes no_collaborators_found
\* immediately followed by collaborators_completed if it is the first
\* observation of the session, and nothing on any later observation.
C19_ZeroOnlyOnFirstObservation ==
  [][ (CollabHandlerRuns /\ PyLen(sessCollaborators) = 0
                         /\ PyLen(sessCollaborators') = 0) =>
        IF collabObserved = NoCollabObservation
          THEN NewEvents = << Event("no_collaborators_found", 0, "", NoItem),
                              Event("collaborators_completed", 0, "", NoItem) >>
          ELSE NewEvents = << >> ]_vars

\* the check of handle_main_profile_update finds main_done.txt and a single
\* profile without a profile_url
MissingUrlCase ==
  /\ wpc = "mainCheck"
  /\ wpc' # "mainCheck"
  /\ mainDone
  /\ Len(wProfiles) = 1
  /\ wProfiles[1].profile_url = NoUrl

NewOn(q) == SubSeq(queue'[q], Len(queue[q]) + 1, Len(queue'[q]))

\* the payloads a step publishes, by position in `emitted`
NewPayloads == [i \in 1..(Len(emitted') - Len(emitted)) |-> Len(emitted) + i]

\* C12: every event published for the session is put exactly once on every
\* queue subscribed to the session at that moment and on no other queue
\* (one subscribed to another session, or to none); nothing already on a
\* queue is touched, and the handlers' publishing never waits for a queue:
\* a handler with a pending modification event can always run.
C12_BroadcastToSubscribers ==
  [][ /\ \A q \in 1..Len(queue) :
            /\ IsPrefix(queue[q], queue'[q])
            /\ NewOn(q) = IF q \in ListSet(Targets(SessionId))
                             THEN NewPayloads ELSE << >>
      /\ (wpc = "idle" /\ pendingMain > 0) => ENABLED HandleMainProfileRead
      /\ (wpc = "idle" /\ pendingCollab > 0) => ENABLED HandleCollaboratorsUpdate
    ]_vars

\* events were published while one queue was subscribed to the session and
\* another queue to the other session
C12_Witness ==
  \E q1 \in ListSet(Targets(SessionId)) : \E q2 \in ListSet(Targets(OtherSession)) :
     /\ Len(queue[q1]) >= 2
     /\ queue[q2] = << >>

\* the step is a call unsubscribe(sid, q)
Unsubscribes(sid, q) ==
  /\ busOp'.n = busOp.n + 1
  /\ busOp'.op = "unsubscribe"
  /\ busOp'.sid = sid
  /\ busOp'.q = q

\* C13: unsubscribe(s, q) takes q out of the queues of s and changes nothing
\* else: the other queues of s and the queues of every other session stay
\* registered in the same order, a q that is not registered for s changes
\* nothing, and when the last queue of s goes s leaves the registry; a queue
\* not subscribed to the session receives nothing of what is published later.
C13_UnsubscribeFrame ==
  [][ /\ \A sid \in Sessions : \A q \in 1..Len(queue) :
            Unsubscribes(sid, q) =>
              /\ q \notin ListSet(TargetsOf(subscribers', sid))
              /\ TargetsOf(subscribers', sid) = ListRemove(Targets(sid), q)
              /\ \A s2 \in Sessions \ {sid} :
                    /\ TargetsOf(subscribers', s2) = Targets(s2)
                    /\ s2 \in DOMAIN subscribers' <=> s2 \in DOMAIN subscribers
              /\ q \notin ListSet(Targets(sid)) => subscribers' = subscribers
              /\ sid \in DOMAIN subscribers' <=> TargetsOf(subscribers', sid) # << >>
              /\ queue' = queue
      /\ \A q \in 1..Len(queue) :
            IF q \in ListSet(Targets(SessionId))
              THEN NewOn(q) = NewPayloads
              ELSE queue'[q] = queue[q] ]_vars

\* a queue was unsubscribed from the session after it had received events,
\* and events published later reached only the queue still subscribed
C13_Witness ==
  /\ busOp.op = "unsubscribe"
  /\ busOp.sid = SessionId
  /\ \E q2 \in ListSet(Targets(SessionId)) :
        /\ busOp.q # q2
        /\ queue[busOp.q] # << >>
        /\ Len(queue[q2]) > 0
        /\ queue[q2][Len(queue[q2])] > queue[busOp.q][Len(queue[busOp.q])]

\* C14: on every subscriber queue the events lie in the order in which the
\* dispatcher observed the file modifications they were produced for: an
\* event of an earlier handler run is never behind one of a later run, and
\* the payloads are in the order they were published.
C14_QueueOrder ==
  \A q \in 1..Len(queue) : \A x, y \in 1..Len(queue[q]) :
     /\ x < y => queue[q][x] < queue[q][y]
     /\ (/\ emittedObs[queue[q][x]] > 0
         /\ emittedObs[queue[q][y]] > 0
         /\ emittedObs[queue[q][x]] < emittedObs[queue[q][y]]) => x < y

\* a queue holds the events of three different handler runs
C14_Witness ==
  \E q \in 1..Len(queue) :
     Cardinality({emittedObs[queue[q][x]] : x \in 1..Len(queue[q])} \ {0}) >= 3

\* ---------------------------------------------------------- claims C21..C30
\* the record the extractor keeps for a node without a profile link
UnresolvedRecord(obj) ==
  [author_id |-> NoUrl, name |-> obj.name, info |-> "Profil bulunamadi",
   photo_url |-> DEFAULT_PHOTO_URL, profile_url |-> NoUrl, status |-> "completed"]

\* C21: for every graph node for which no profile link was obtained, the
\* record kept and written has author_id "" and profile_url "", the default
\* placeholder as photo_url, info "Profil bulunamadi" and status "completed",
\* whatever photo reference and detail text the node carried.
C21_UnresolvedRecord ==
  /\ \A p \in 1..Len(cproc) : \A i \in 1..Len(cproc[p].recs) :
        cproc[p].nodes[i].profile_url = NoUrl
          => cproc[p].recs[i] = UnresolvedRecord(cproc[p].nodes[i])
  /\ collabFile.kind = "doc" =>
        \A i \in 1..Len(collabFile.collaborator_profiles) :
           graph[i].profile_url = NoUrl
             => collabFile.collaborator_profiles[i] = UnresolvedRecord(graph[i])

\* unresolved nodes with each kind of photo reference, with and without a
\* detail text, have been recorded
C21_Witness ==
  /\ collabFile.kind = "doc"
  /\ \E i, j \in 1..Len(collabFile.collaborator_profiles) :
        /\ graph[i].profile_url = NoUrl
        /\ graph[j].profile_url = NoUrl
        /\ graph[i].photo_url = "/photo"
        /\ graph[i].info = "univ"
        /\ graph[j].photo_url = "http://photo"

\* the step resolves the --profile-id of process p (no --profile-url given)
ResolvesId(p) ==
  /\ cproc[p].pc = "args"
  /\ cproc'[p].pc # "args"
  /\ cproc[p].profile_id # NoId
  /\ cproc[p].profile_url = NoUrl

\* main_profile.json holds a profile identified by profile_id
HoldsProfile(f, profile_id) ==
  /\ f.kind = "doc"
  /\ \E i \in 1..Len(f.profiles) : f.profiles[i].author_id = profile_id

\* C24: run with a profile_id and no profile_url, the Collaborator Extractor
\* goes on with the profile_url of the first profile of main_profile.json
\* identified by that id, and exits non-zero only when no profile matches.
C24_ResolvesProfileId ==
  [][ \A p \in 1..Len(cproc) :
        ResolvesId(p) =>
          IF HoldsProfile(mainFile, cproc[p].profile_id)
            THEN /\ cproc'[p].pc = "nav"
                 /\ cproc'[p].profile_url =
                      get_profile_url_by_author_id(mainFile, cproc[p].profile_id)
            ELSE cproc'[p].pc = "failed" ]_vars

\* a search_profile call of the session has completed successfully
SearchCompleted ==
  /\ mcpSession # NoSession
  /\ scrapeSession # NoSession
  /\ pc = "done"
  /\ mainFile.kind = "doc"
  /\ mainFile.status = "completed"

\* C22: after a search_profile call made in MCP session S has completed
\* successfully, main_profile.json exists in the session directory keyed by
\* S and holds the profiles of that search, so that a following
\* get_collaborators or get_profile call in S finds them.
C22_SearchFillsSessionDir ==
  SearchCompleted => SessionMainProfile(mcpSession) = mainFile

\* the step is a get_collaborators call with profile_index = i
GetsCollaborators(i) ==
  /\ toolCalls' = toolCalls + 1
  /\ streamCall'.tool \in {"stream", "sync"}
  /\ streamCall'.profile_index = i

\* C23: a get_collaborators call with profile_index = i, the 0-based position
\* of the profile the client selected (0 <= i < number of profiles of the
\* session's main_profile.json), runs the collaborator search on profiles[i].
C23_ZeroBasedIndex ==
  [][ \A i \in ProfileIndexArgs :
        LET f == SessionMainProfile(mcpSession)
        IN (GetsCollaborators(i) /\ f.kind = "doc" /\ i < Len(f.profiles)) =>
              /\ streamCall'.outcome = "started"
              /\ Len(cproc') = Len(cproc) + 1
              /\ cproc'[Len(cproc')].profile_url = f.profiles[i + 1].profile_url
    ]_vars

\* the step is taken by the filesystem-event thread: a run of on_modified
\* starts, goes on or ends
ObserverThreadStep == wRuns' # wRuns \/ wpc' # wpc

\* C25: the subscriber registry and the per-session state (profiles,
\* collaborators, state) are changed only by the event-loop thread: a
\* file-watch callback on the filesystem-event thread neither writes to them
\* nor puts on a subscriber queue.
C25_LoopThreadOnly ==
  [][ ObserverThreadStep =>
        /\ subscribers' = subscribers
        /\ sessProfiles' = sessProfiles
        /\ sessCollaborators' = sessCollaborators
        /\ sessState' = sessState
        /\ queue' = queue ]_vars

\* the Collaborator Extractor processes of the session that have not exited
RunningCollab == {p \in 1..Len(cproc) : ~Exited(p)}

\* C26: at most one Collaborator Extractor process of a session runs at any
\* time, so no two of them write the same collaborators.json concurrently,
\* whatever modification events and get_collaborators calls occur.
C26_OneCollabWriter == Cardinality(RunningCollab) <= 1

\* the dispatcher has auto-started a Collaborator Extractor
AutoStarted == \E p \in 1..Len(cproc) : cproc[p].by = "watcher"

\* C27: the dispatcher auto-starts the Collaborator Extractor only for a
\* session whose final "completed" snapshot holds exactly one profile, for
\* every interleaving of the extractor's writes with the handler's read of
\* main_profile.json and its later check of main_done.txt.
C27_AutoStartOnlySingle ==
  AutoStarted =>
    /\ mainFile.kind = "doc"
    /\ mainFile.status = "completed"
    /\ Len(mainFile.profiles) = 1

\* the step completes a per-record write of process p
LoopWrite(p) == cproc'[p].writes = cproc[p].writes + 1

\* the step is a write of collaborators.json by process p
WritesCollab(p) ==
  /\ cproc'[p] # cproc[p]
  /\ collabFile'.kind = "doc"
  /\ cproc[p].pc \in {"dump", "finalDump"}

\* the first k records of the graph, in graph order
FirstRecords(k) == [i \in 1..k |-> CollaboratorRecord(graph[i])]

\* C28: the k-th per-record write of a run leaves collaborators.json with
\* exactly the first k records in graph order, total_profiles = k and status
\* "scraping"; there is one such write for each node, and no write holds more
\* than one record more than the write before it.
C28_WritePerRecord ==
  [][ \A p \in 1..Len(cproc) :
        /\ LoopWrite(p) =>
              /\ cproc'[p].writes <= Len(graph)
              /\ collabFile' = CollaboratorsData("scraping", FirstRecords(cproc'[p].writes))
              /\ collabFile'.total_profiles = cproc'[p].writes
        /\ WritesCollab(p) =>
              /\ Len(collabFile'.collaborator_profiles) >= cproc[p].writes
              /\ Len(collabFile'.collaborator_profiles) <= cproc[p].writes + 1
        /\ (cproc[p].pc = "dump" /\ cproc'[p].pc # "dump") => LoopWrite(p)
        /\ cproc[p].pc \in {"finalOpen", "marker", "done"}
              => cproc[p].writes = Len(graph) ]_vars

\* the second per-record write of a run over two nodes has just been made
C28_Witness ==
  \E p \in 1..Len(cproc) :
     /\ cproc[p].writes = 2
     /\ cproc[p].pc = "finalOpen"
     /\ collabFile = CollaboratorsData("scraping", FirstRecords(2))

\* C29: when the only Collaborator Extractor run of a session has processed
\* all nodes and exited normally, collaborators.json holds its records with
\* status "completed", for any number of records including zero, and
\* collaborators_done.txt exists only if at least one record was kept.
C29_CompletedOnExit ==
  (Len(cproc) = 1 /\ cproc[1].pc = "done") =>
    /\ collabFile = CollaboratorsData("completed", cproc[1].recs)
    /\ collabDone => cproc[1].recs # << >>

\* the page loop has processed at least one page
PageProcessed == page_num > 1 \/ stop \in {"cap", "last", "navfail"}

\* C30: after every page it processes, the page on which the 100-profile cap
\* is reached included, the Profile Extractor writes main_profile.json with
\* status "ongoing" and the current list before it leaves the page loop, so
\* the final "completed" write replaces an "ongoing" snapshot of the same list.
C30_OngoingBeforeFinal ==
  [][ (pc = "finalOpen" /\ pc' = "finalDump" /\ PageProcessed)
        => mainFile = ResultData("ongoing", profiles) ]_vars

-----------------------------------------------------------------------------
\* Claims C31..C39

\* the Profile Extractor has completed a write of main_profile.json and is
\* about to take its next step (pagination, or writing the marker)
AfterMainWrite == pc \in {"paginate", "marker"}

\* Collaborator Extractor p has completed at least one write of
\* collaborators.json and is not in the middle of the next one
AfterCollabWrite(p) ==
  /\ cproc[p].pc \in {"open", "finalOpen", "marker", "done"}
  /\ cproc[p].writes > 0 \/ cproc[p].pc \in {"marker", "done"}

\* C31: every snapshot write of either extractor (each "ongoing" and the
\* final write of main_profile.json, each per-record and the final write of
\* collaborators.json) has been flushed and fsync'd when the extractor takes
\* its next step.
C31_WritesFsynced ==
  /\ AfterMainWrite => mainFsynced
  /\ \A p \in 1..Len(cproc) : AfterCollabWrite(p) => collabFsynced

\* position of a session state on the path INITIALIZING -> SCRAPING_MAIN ->
\* (AWAITING_SELECTION | SCRAPING_COLLABS) -> COMPLETED
Phase(state) ==
  CASE state = "initializing"       -> 0
    [] state = "scraping_main"      -> 1
    [] state = "awaiting_selection" -> 2
    [] state = "scraping_collabs"   -> 2
    [] state = "completed"          -> 3
    [] OTHER                        -> 4

\* C32: the state of a session changes only forward along INITIALIZING ->
\* SCRAPING_MAIN -> (AWAITING_SELECTION | SCRAPING_COLLABS) -> COMPLETED, or
\* to FAILED: once COMPLETED it never changes again, and it never goes back
\* to an earlier phase, whatever search, selection, get_collaborators and
\* file events follow.
C32_StateForwardOnly ==
  [][ /\ sessState = "completed" => sessState' = "completed"
      /\ sessState \notin {"completed", "failed"}
            => \/ sessState' = "failed"
               \/ Phase(sessState') >= Phase(sessState) ]_vars

\* the number of records in collaborator_profiles of collaborators.json
RecordsInFile ==
  IF collabFile.kind = "doc" THEN Len(collabFile.collaborator_profiles) ELSE 0

\* C33: the process_complete event published when the exit of a
\* Collaborator Extractor with code 0 is handled carries total_collaborators
\* equal to the number of records in collaborator_profiles.
C33_CompleteCountsRecords ==
  [][ \A p \in 1..Len(cproc) :
        (ReapsCollab(p) /\ ReturnCode(p) = 0) =>
          \A i \in 1..Len(NewEvents) :
             NewEvents[i].event = "process_complete"
               => NewEvents[i].count = RecordsInFile ]_vars

\* the records of a sequence of collaborators_update events, in the order sent
RECURSIVE SentRecords(_)
SentRecords(updates) ==
  IF updates = << >> THEN << >>
  ELSE Head(updates).collaborators \o SentRecords(Tail(updates))

\* C34: the polling loop of stream_real_collaborator_search sends every
\* record of collaborators.json in at most one collaborators_update event,
\* in file order and in chunks of at most 10; chunk_start and chunk_end are
\* the 1-based positions of the first and the last record of the chunk, and
\* the records sent so far always form a prefix of the list in the file.
C34_UpdatesArePrefix ==
  \A p \in 1..Len(cproc) :
    LET u == cproc[p].updates
    IN /\ \A k \in 1..Len(u) :
             /\ Len(u[k].collaborators) \in 1..chunk_size
             /\ u[k].chunk_start = Len(SentRecords(SubSeq(u, 1, k - 1))) + 1
             /\ u[k].chunk_end = u[k].chunk_start + Len(u[k].collaborators) - 1
       /\ collabFile.kind = "doc"
             => IsPrefix(SentRecords(u), collabFile.collaborator_profiles)

\* the dispatcher has reported that the profile has no collaborators
ReportedNoCollaborators ==
  \E i \in 1..Len(emitted) :
     emitted[i].event \in {"no_collaborators_found", "collaborators_completed"}

\* C35: the dispatcher never publishes no_collaborators_found or
\* collaborators_completed for a session whose Collaborator Extractor records
\* at least one collaborator, however the extractor's truncate-and-rewrite
\* of collaborators.json interleaves with the dispatcher's read of the file.
C35_NoFalseEmptyReport ==
  ReportedNoCollaborators => \A p \in 1..Len(cproc) : cproc[p].recs = << >>

\* the profile count of the last progress_update published so far (0 if none)
LastProgressCount ==
  IF ProgressUpdates = << >> THEN 0 ELSE ProgressCounts[Len(ProgressCounts)]

\* C36: within a session the profile list the dispatcher keeps in memory
\* never shrinks, and the counts of successive progress_update events never
\* decrease, however the extractor's whole-file overwrites of
\* main_profile.json interleave with the dispatcher's reads.
C36_ProfilesNeverShrink ==
  [][ /\ Len(sessProfiles') >= Len(sessProfiles)
      /\ \A i \in 1..Len(NewEvents) :
            IsProgressUpdate(NewEvents[i]) => NewEvents[i].count >= LastProgressCount ]_vars

\* C37: every session started by process_user_request whose extractor
\* subprocesses all terminate eventually reaches COMPLETED or FAILED, a
\* search that finds no profile and a search that finds several profiles
\* with no selection made included.
C37_SessionEnds == <>(sessState \in {"completed", "failed"})

\* Collaborator Extractor p has exited with code 0
ExitedOk(p) == p \in 1..Len(cproc) /\ cproc[p].pc = "done"

\* the reader of Collaborator Extractor p has handled its exit
Reaped(p) == p \in 1..Len(cproc) /\ cproc[p].reaped

IsProcessComplete(e) == e.event = "process_complete"

\* C38: after a Collaborator Extractor started by start_collaborator_scraping
\* has exited with code 0, handle_collaborator_completion eventually runs:
\* the state becomes COMPLETED and one process_complete event is published,
\* whether the start was made on the orchestrator's event loop or from the
\* file-watch callback through its own event loop.
C38_CompletionRuns ==
  /\ \A p \in 1..MaxStarts : [](ExitedOk(p) => <>Reaped(p))
  /\ [][ \A p \in 1..Len(cproc) :
            (ReapsCollab(p) /\ ReturnCode(p) = 0) =>
               /\ sessState' = "completed"
               /\ Len(SelectSeq(NewEvents, IsProcessComplete)) = 1 ]_vars

\* what a step adds to queue q (a queue created by the step had nothing)
AddedTo(q) ==
  IF q <= Len(queue) THEN SubSeq(queue'[q], Len(queue[q]) + 1, Len(queue'[q]))
  ELSE queue'[q]

\* queue q holds the payload of a session_started event
HoldsSessionStarted(q) ==
  \E i \in 1..Len(queue[q]) : emitted[queue[q][i]].event = "session_started"

\* C39: events are not kept for subscribers that are not there: a payload is
\* put on a queue only in the step that publishes it and only if the queue
\* was subscribed to the session before that step, so an event published
\* while no queue is subscribed reaches nobody, a queue subscribed later
\* never receives it, and the session_started event of process_user_request
\* is on no queue.
C39_NoBuffering ==
  /\ [](\A q \in 1..Len(queue) : ~HoldsSessionStarted(q))
  /\ [][ \A q \in 1..Len(queue') :
            \A i \in 1..Len(AddedTo(q)) :
               /\ AddedTo(q)[i] > Len(emitted)
               /\ q \in ListSet(Targets(SessionId)) ]_vars

\* session_started and a later event have been published, and a queue
\* subscribed to the session in between holds the later one only
C39_Witness ==
  /\ Len(emitted) >= 2
  /\ emitted[1].event = "session_started"
  /\ \E q \in ListSet(Targets(SessionId)) : queue[q] = << Len(emitted) >>
====
